---- MODULE Spec2Model ----
(***************************************************************************)
(* A model of src/main.py: the ModbusRTU class (CRC-16/Modbus, request     *)
(* framing, response validation) and the script that drives one            *)
(* request/response exchange over a serial port.                           *)
(*                                                                         *)
(* Python values are modelled as follows.  bytes and lists are sequences   *)
(* of integers, str is a TLA+ string, an integer is an unbounded Int (as   *)
(* in Python).  A local that is not bound yet holds a default value and    *)
(* the program counter pc tells whether it has been assigned; the one      *)
(* local whose binding matters to a reader, data, is an option: None or    *)
(* Some(v).                                                                *)
(***************************************************************************)
EXTENDS Integers, Sequences, FiniteSets, TLC

VARIABLES
    pc,                 \* position of the script / of process_input
    port,               \* self.ser: "unopened", "open" or "closed"
    input_data,         \* the line returned by input()
    input_values,       \* parse_input's result
    address,            \* locals of process_input ...
    function_code,
    starting_register,
    length,
    message,
    crc,
    message_with_crc,
    response,
    crc_ok,             \* the value verify_crc returned
    data,               \* None, or Some(response[3:-2])
    error,              \* the exception raised, "none" when there is none
    printed,            \* what was printed, in order
    wire,               \* transport side: the frames ser.write was given
    reads               \* transport side: the number of ser.read calls

vars == <<pc, port, input_data, input_values, address, function_code,
          starting_register, length, message, crc, message_with_crc,
          response, crc_ok, data, error, printed, wire, reads>>

(***************************************************************************)
(* Bounds of the model.                                                    *)
(***************************************************************************)
\* the longest input line, in tokens
MaxTokens == 7
\* the longest byte sequence the function harness draws
MaxBodyLen == 3

None == <<>>
Some(v) == <<v>>

(***************************************************************************)
(* Python's integer operators.                                             *)
(***************************************************************************)
RECURSIVE NatXor(_, _)
NatXor(a, b) ==
    IF a = 0 THEN b
    ELSE IF b = 0 THEN a
    ELSE (((a % 2) + (b % 2)) % 2) + (2 * NatXor(a \div 2, b \div 2))

RECURSIVE NatAnd(_, _)
NatAnd(a, b) ==
    IF a = 0 \/ b = 0 THEN 0
    ELSE ((a % 2) * (b % 2)) + (2 * NatAnd(a \div 2, b \div 2))

RECURSIVE NatOr(_, _)
NatOr(a, b) ==
    IF a = 0 THEN b
    ELSE IF b = 0 THEN a
    ELSE (IF (a % 2) + (b % 2) > 0 THEN 1 ELSE 0) + (2 * NatOr(a \div 2, b \div 2))

\* x | y on Python's unbounded two's-complement integers: ~(~x & ~y) when an
\* operand is negative, with ~x = -1 - x
PyOr(x, y) ==
    IF x >= 0 /\ y >= 0 THEN NatOr(x, y)
    ELSE IF x < 0 /\ y < 0 THEN -1 - NatAnd(-1 - x, -1 - y)
    ELSE LET n == IF x < 0 THEN -1 - x ELSE -1 - y   \* ~ of the negative one
             p == IF x < 0 THEN y ELSE x             \* the non-negative one
         IN  -1 - (n - NatAnd(n, p))

\* x << k
PyShl(x, k) == x * (2 ^ k)

Min(a, b) == IF a < b THEN a ELSE b
Max(a, b) == IF a > b THEN a ELSE b

\* s[i:j] with Python's rules for negative and out-of-range indices
PySlice(s, i, j) ==
    LET n  == Len(s)
        lo == IF i < 0 THEN Max(n + i, 0) ELSE Min(i, n)
        hi == IF j < 0 THEN Max(n + j, 0) ELSE Min(j, n)
    IN  IF lo >= hi THEN <<>> ELSE SubSeq(s, lo + 1, hi)

\* s[-k:] for k > 0
PyLast(s, k) == PySlice(s, -k, Len(s))

\* n.to_bytes(size, byteorder), for 0 <= n < 256^size
to_bytes(n, size, byteorder) ==
    [i \in 1..size |->
        IF byteorder = "big" THEN (n \div (256 ^ (size - i))) % 256
        ELSE (n \div (256 ^ (i - 1))) % 256]

\* int.from_bytes(b, byteorder)
RECURSIVE from_bytes(_, _)
from_bytes(b, byteorder) ==
    IF b = <<>> THEN 0
    ELSE IF byteorder = "big"
         THEN (256 * from_bytes(SubSeq(b, 1, Len(b) - 1), byteorder)) + b[Len(b)]
         ELSE b[1] + (256 * from_bytes(Tail(b), byteorder))

(***************************************************************************)
(* compute_crc                                                             *)
(***************************************************************************)
CrcInit == 65535     \* 0xFFFF
CrcPoly == 40961     \* 0xA001

\* a round that shifts and never XORs the polynomial in
crc_round_no_poly(c) == c \div 2

\* one pass of the inner loop body
crc_round(c) ==
    IF c % 2 = 1 THEN NatXor(c \div 2, CrcPoly) ELSE c \div 2

RECURSIVE crc_rounds(_, _)
crc_rounds(c, n) == IF n = 0 THEN c ELSE crc_rounds(crc_round(c), n - 1)

\* the outer loop body for one byte: crc ^= byte, then the eight rounds.  (A
\* function, so that TLC has the running value in hand before it starts on the
\* next byte.)
crc_byte[c \in Nat, byte \in Nat] == crc_rounds(NatXor(c, byte), 8)

RECURSIVE crc_from(_, _, _)
crc_from(c, bytes, i) ==
    IF i > Len(bytes) THEN c ELSE crc_from(crc_byte[c, bytes[i]], bytes, i + 1)

\* the accumulator started at 0 instead of 0xFFFF
compute_crc_zero_init(bytes) == crc_from(0, bytes, 1)

compute_crc(bytes) == crc_from(CrcInit, bytes, 1)

(***************************************************************************)
(* build_modbus_message, verify_crc                                        *)
(***************************************************************************)
\* the two register fields packed low byte first
build_modbus_message_little(a, f, s, l) ==
    to_bytes(a, 1, "big") \o to_bytes(f, 1, "big")
        \o to_bytes(s, 2, "little") \o to_bytes(l, 2, "little")

build_modbus_message(a, f, s, l) ==
    to_bytes(a, 1, "big") \o to_bytes(f, 1, "big")
        \o to_bytes(s, 2, "big") \o to_bytes(l, 2, "big")

\* the received CRC read high byte first
verify_crc_big(resp) ==
    IF Len(resp) > 2
    THEN from_bytes(PyLast(resp, 2), "big") = compute_crc(PySlice(resp, 0, -2))
    ELSE FALSE

verify_crc(resp) ==
    IF Len(resp) > 2
    THEN LET response_crc   == from_bytes(PyLast(resp, 2), "little")
             calculated_crc == compute_crc(PySlice(resp, 0, -2))
         IN  response_crc = calculated_crc
    ELSE FALSE

(***************************************************************************)
(* parse_input                                                             *)
(***************************************************************************)
Whitespace == {" ", "\t"}

CharAt(s, i) == SubSeq(s, i, i)

startswith(s, prefix) ==
    Len(s) >= Len(prefix) /\ SubSeq(s, 1, Len(prefix)) = prefix

\* str.split(): the maximal runs of non-whitespace characters, in order
RECURSIVE split_from(_, _, _, _)
split_from(s, i, cur, acc) ==
    IF i > Len(s) THEN (IF cur = "" THEN acc ELSE Append(acc, cur))
    ELSE IF CharAt(s, i) \in Whitespace
         THEN split_from(s, i + 1, "", IF cur = "" THEN acc ELSE Append(acc, cur))
         ELSE split_from(s, i + 1, cur \o CharAt(s, i), acc)

split(s) == split_from(s, 1, "", <<>>)

LowerDigits == "0123456789abcdef"
UpperDigits == "0123456789ABCDEF"

\* the value of a hexadecimal digit, -1 for any other character
DigitValue(c) ==
    IF \E d \in 1..16 : CharAt(LowerDigits, d) = c
    THEN (CHOOSE d \in 1..16 : CharAt(LowerDigits, d) = c) - 1
    ELSE IF \E d \in 1..16 : CharAt(UpperDigits, d) = c
         THEN (CHOOSE d \in 1..16 : CharAt(UpperDigits, d) = c) - 1
         ELSE -1

RECURSIVE digits_value(_, _, _)
digits_value(s, i, acc) ==
    IF i > Len(s) THEN acc
    ELSE digits_value(s, i + 1, (16 * acc) + DigitValue(CharAt(s, i)))

\* int(value, 16): an optional sign, an optional 0x/0X, one or more hexadecimal
\* digits; anything else raises ValueError.  (Digit-group underscores are not in
\* the alphabet of the lines the model draws.)
int16(value) ==
    LET signed   == startswith(value, "-") \/ startswith(value, "+")
        unsigned == IF signed THEN Tail(value) ELSE value
        digits   == IF startswith(unsigned, "0x") \/ startswith(unsigned, "0X")
                    THEN SubSeq(unsigned, 3, Len(unsigned)) ELSE unsigned
        valid    == /\ digits # ""
                    /\ \A i \in 1..Len(digits) : DigitValue(CharAt(digits, i)) >= 0
        mag      == digits_value(digits, 1, 0)
    IN  IF valid
        THEN [raised |-> FALSE, val |-> IF startswith(value, "-") THEN -mag ELSE mag]
        ELSE [raised |-> TRUE, val |-> 0]

\* the loop body of parse_input for one token
parse_value(value) ==
    int16(IF startswith(value, "0x") \/ startswith(value, "0X")
          THEN SubSeq(value, 3, Len(value)) ELSE value)

parse_input(line) ==
    LET input_tokens == split(line)
        parsed       == [i \in 1..Len(input_tokens) |-> parse_value(input_tokens[i])]
    IN  IF \E i \in 1..Len(parsed) : parsed[i].raised
        THEN [raised |-> TRUE, values |-> <<>>]
        ELSE [raised |-> FALSE, values |-> [i \in 1..Len(parsed) |-> parsed[i].val]]

(***************************************************************************)
(* The environment: the lines a user types, the bytes a serial line        *)
(* delivers.                                                               *)
(***************************************************************************)
\* the tokens the model draws for the i-th position of the line
TokenChoices(i) ==
    CASE i = 1 -> {"0x01", "0xFF", "0x100", "-1", "zz"}
      [] i = 2 -> {"0x03", "3", "0x100"}
      [] i = 3 -> {"0x00", "0X01", "0x100"}
      [] i = 4 -> {"0x00", "01"}
      [] i = 5 -> {"0x00", "0x01"}
      [] i = 6 -> {"0x00", "0x01", "0x02", "0x7D", "0x7E"}
      [] OTHER -> {"0x00"}

\* the whitespace typed after the i-th token
Separator(i) == IF i = 1 THEN "  " ELSE IF i = 2 THEN "\t" ELSE " "

RECURSIVE join(_, _)
join(tokens, i) ==
    IF i > Len(tokens) THEN ""
    ELSE tokens[i] \o (IF i < Len(tokens) THEN Separator(i) ELSE "") \o join(tokens, i + 1)

RECURSIVE TokenSeqs(_)
TokenSeqs(n) ==
    IF n = 0 THEN {<<>>}
    ELSE {Append(ts, t) : ts \in TokenSeqs(n - 1), t \in TokenChoices(n)}

InputLines == UNION {{join(ts, 1) : ts \in TokenSeqs(n)} : n \in 0..MaxTokens}

\* what a slave puts on the line: a body followed by its CRC, low byte first
slave_frame(body) == body \o to_bytes(compute_crc(body), 2, "little")

FlipBit(frame, i, k) == [frame EXCEPT ![i] = NatXor(@, 2 ^ k)]

Prefixes(frame) == {SubSeq(frame, 1, n) : n \in 0..Len(frame)}

ReadReply   == <<1, 3, 2, 0, 10>>       \* two bytes of register data
ErrorReply  == <<1, 131, 2>>            \* an exception response

\* the bytes that may be waiting on the line when ser.read is called: a reply cut
\* short by the timeout, a reply with one bit flipped, an exception reply, the
\* request echoed back
LineBytes(request) ==
    Prefixes(slave_frame(ReadReply))
        \cup {FlipBit(slave_frame(ReadReply), i, k) :
                 i \in 1..Len(slave_frame(ReadReply)), k \in {0, 7}}
        \cup {slave_frame(ErrorReply), request}

(***************************************************************************)
(* The script (lines 146-148) and process_input, one action per step.      *)
(***************************************************************************)
READ_SIZE == 100

Init ==
    /\ pc = "main"
    /\ port = "unopened"
    /\ input_data = ""
    /\ input_values = <<>>
    /\ address = 0
    /\ function_code = 0
    /\ starting_register = 0
    /\ length = 0
    /\ message = <<>>
    /\ crc = 0
    /\ message_with_crc = <<>>
    /\ response = <<>>
    /\ crc_ok = FALSE
    /\ data = None
    /\ error = "none"
    /\ printed = <<>>
    /\ wire = <<>>
    /\ reads = 0

\* modbus = ModbusRTU(): serial.Serial(...) opens the port or raises, and nothing
\* around line 146 catches it
Construct ==
    /\ pc = "main"
    /\ \/ /\ port' = "open"
          /\ pc' = "input"
          /\ UNCHANGED error
       \/ /\ error' = "SerialException"
          /\ pc' = "crashed"
          /\ UNCHANGED port
    /\ UNCHANGED <<input_data, input_values, address, function_code,
                   starting_register, length, message, crc, message_with_crc,
                   response, crc_ok, data, printed, wire, reads>>

\* input_data = input(...): a line, or EOFError at end of input
ReadInput ==
    /\ pc = "input"
    /\ \/ /\ \E line \in InputLines : input_data' = line
          /\ pc' = "parse"
          /\ UNCHANGED error
       \/ /\ error' = "EOFError"
          /\ pc' = "crashed"
          /\ UNCHANGED input_data
    /\ UNCHANGED <<port, input_values, address, function_code,
                   starting_register, length, message, crc, message_with_crc,
                   response, crc_ok, data, printed, wire, reads>>

\* input_values = self.parse_input(input_data)
ParseInput ==
    /\ pc = "parse"
    /\ LET r == parse_input(input_data)
       IN  IF r.raised
           THEN /\ error' = "ValueError"
                /\ pc' = "except"
                /\ UNCHANGED input_values
           ELSE /\ input_values' = r.values
                /\ pc' = "extract"
                /\ UNCHANGED error
    /\ UNCHANGED <<port, input_data, address, function_code,
                   starting_register, length, message, crc, message_with_crc,
                   response, crc_ok, data, printed, wire, reads>>

\* lines 100-103: the four assignments run in order until one indexes past the
\* end of the list
Extract ==
    /\ pc = "extract"
    /\ LET n == Len(input_values)
       IN  /\ address' = IF n >= 1 THEN input_values[1] ELSE address
           /\ function_code' = IF n >= 2 THEN input_values[2] ELSE function_code
           /\ starting_register' =
                  IF n >= 4 THEN PyOr(PyShl(input_values[3], 8), input_values[4])
                  ELSE starting_register
           /\ length' =
                  IF n >= 6 THEN PyOr(PyShl(input_values[5], 8), input_values[6])
                  ELSE length
           /\ IF n >= 6
              THEN pc' = "validate" /\ UNCHANGED error
              ELSE pc' = "except" /\ error' = "IndexError"
    /\ UNCHANGED <<port, input_data, input_values, message, crc,
                   message_with_crc, response, crc_ok, data, printed, wire, reads>>

\* lines 106-113
params_ok(a, f, s, l) ==
    /\ 0 <= a /\ a <= 255
    /\ 0 <= f /\ f <= 255
    /\ 0 <= s /\ s <= 65535
    /\ 0 <= l /\ l <= 125

\* the range checks made and their result ignored
Validate_no_raise ==
    /\ pc = "validate"
    /\ pc' = "build"
    /\ UNCHANGED <<port, input_data, input_values, address, function_code,
                   starting_register, length, message, crc, message_with_crc,
                   response, crc_ok, data, error, printed, wire, reads>>

Validate ==
    /\ pc = "validate"
    /\ IF params_ok(address, function_code, starting_register, length)
       THEN pc' = "build" /\ UNCHANGED error
       ELSE pc' = "except" /\ error' = "ValueError"
    /\ UNCHANGED <<port, input_data, input_values, address, function_code,
                   starting_register, length, message, crc, message_with_crc,
                   response, crc_ok, data, printed, wire, reads>>

\* the CRC appended high byte first
attach_crc_big(msg, c) == msg \o to_bytes(c, 2, "big")

\* message_with_crc = message + crc.to_bytes(2, 'little')
attach_crc(msg, c) == msg \o to_bytes(c, 2, "little")

\* lines 116-122
Build ==
    /\ pc = "build"
    /\ message' = build_modbus_message(address, function_code,
                                       starting_register, length)
    /\ crc' = compute_crc(message')
    /\ message_with_crc' = attach_crc(message', crc')
    /\ printed' = Append(printed, "sent")
    /\ pc' = "write"
    /\ UNCHANGED <<port, input_data, input_values, address, function_code,
                   starting_register, length, response, crc_ok, data, error,
                   wire, reads>>

\* send_modbus_message, line 58: self.ser.write(message_with_crc)
Write ==
    /\ pc = "write"
    /\ \/ /\ wire' = Append(wire, message_with_crc)
          /\ pc' = "read"
          /\ UNCHANGED error
       \/ /\ error' = "SerialException"
          /\ pc' = "except"
          /\ UNCHANGED wire
    /\ UNCHANGED <<port, input_data, input_values, address, function_code,
                   starting_register, length, message, crc, message_with_crc,
                   response, crc_ok, data, printed, reads>>

\* send_modbus_message, lines 59-60, and line 126: response = self.ser.read(100)
Read ==
    /\ pc = "read"
    /\ reads' = reads + 1
    /\ \/ /\ \E waiting \in LineBytes(message_with_crc) :
                response' = PySlice(waiting, 0, READ_SIZE)
          /\ printed' = Append(printed, "response")
          /\ pc' = "verify"
          /\ UNCHANGED error
       \/ /\ error' = "SerialException"
          /\ pc' = "except"
          /\ UNCHANGED <<response, printed>>
    /\ UNCHANGED <<port, input_data, input_values, address, function_code,
                   starting_register, length, message, crc, message_with_crc,
                   crc_ok, data, wire>>

\* the payload extracted whatever verify_crc returned
Verify_always_extract ==
    /\ pc = "verify"
    /\ crc_ok' = verify_crc(response)
    /\ data' = Some(PySlice(response, 3, -2))
    /\ printed' = printed \o <<IF crc_ok' THEN "crc_ok" ELSE "crc_fail", "data">>
    /\ pc' = "finally"
    /\ UNCHANGED <<port, input_data, input_values, address, function_code,
                   starting_register, length, message, crc, message_with_crc,
                   response, error, wire, reads>>

\* lines 129-135
Verify ==
    /\ pc = "verify"
    /\ crc_ok' = verify_crc(response)
    /\ IF crc_ok'
       THEN /\ data' = Some(PySlice(response, 3, -2))
            /\ printed' = printed \o <<"crc_ok", "data">>
       ELSE /\ printed' = Append(printed, "crc_fail")
            /\ UNCHANGED data
    /\ pc' = "finally"
    /\ UNCHANGED <<port, input_data, input_values, address, function_code,
                   starting_register, length, message, crc, message_with_crc,
                   response, error, wire, reads>>

\* the port closed at the end of the try block only: the handler returns with
\* it open
Except_no_close ==
    /\ pc = "except"
    /\ printed' = Append(printed, "error")
    /\ pc' = "done"
    /\ UNCHANGED <<port, input_data, input_values, address, function_code,
                   starting_register, length, message, crc, message_with_crc,
                   response, crc_ok, data, error, wire, reads>>

\* lines 137-138: except Exception as e: print(...)
Except ==
    /\ pc = "except"
    /\ printed' = Append(printed, "error")
    /\ pc' = "finally"
    /\ UNCHANGED <<port, input_data, input_values, address, function_code,
                   starting_register, length, message, crc, message_with_crc,
                   response, crc_ok, data, error, wire, reads>>

\* lines 140-142: finally: self.ser.close()
Finally ==
    /\ pc = "finally"
    /\ port' = "closed"
    /\ pc' = "done"
    /\ UNCHANGED <<input_data, input_values, address, function_code,
                   starting_register, length, message, crc, message_with_crc,
                   response, crc_ok, data, error, printed, wire, reads>>

Next ==
    \/ Construct
    \/ ReadInput
    \/ ParseInput
    \/ Extract
    \/ Validate
    \/ Build
    \/ Write
    \/ Read
    \/ Verify
    \/ Except
    \/ Finally

Spec == Init /\ [][Next]_vars

(***************************************************************************)
(* The pure functions on their own: compute_crc, attach, verify_crc applied *)
(* to byte sequences drawn from a bounded set, and to a frame after one bit *)
(* of its body was flipped on the line.                                    *)
(***************************************************************************)
ByteSamples == {0, 1, 3, 255}

RECURSIVE ByteSeqs(_)
ByteSeqs(n) ==
    IF n = 0 THEN {<<>>}
    ELSE ByteSeqs(n - 1)
            \cup {Append(b, x) : b \in {c \in ByteSeqs(n - 1) : Len(c) = n - 1},
                                 x \in ByteSamples}

KnownVector == <<1, 3, 0, 0, 0, 2>>

FnInputs == ByteSeqs(MaxBodyLen) \cup {KnownVector, ReadReply}

InitFn ==
    /\ pc = "fn_call"
    /\ port = "unopened"
    /\ input_data = ""
    /\ input_values = <<>>
    /\ address = 0
    /\ function_code = 0
    /\ starting_register = 0
    /\ length = 0
    /\ message \in FnInputs
    /\ crc = 0
    /\ message_with_crc = <<>>
    /\ response = <<>>
    /\ crc_ok = FALSE
    /\ data = None
    /\ error = "none"
    /\ printed = <<>>
    /\ wire = <<>>
    /\ reads = 0

\* crc = self.compute_crc(message)
FnComputeCrc ==
    /\ pc = "fn_call"
    /\ crc' = compute_crc(message)
    /\ pc' = "fn_crc"
    /\ UNCHANGED <<port, input_data, input_values, address, function_code,
                   starting_register, length, message, message_with_crc,
                   response, crc_ok, data, error, printed, wire, reads>>

\* message_with_crc = message + crc.to_bytes(2, 'little')
FnAttach ==
    /\ pc = "fn_crc"
    /\ message_with_crc' = attach_crc(message, crc)
    /\ pc' = "fn_framed"
    /\ UNCHANGED <<port, input_data, input_values, address, function_code,
                   starting_register, length, message, crc, response, crc_ok,
                   data, error, printed, wire, reads>>

\* what reaches verify_crc: the frame intact, the frame with one bit of its body
\* flipped, or the bare bytes with no CRC after them
FnDeliver ==
    /\ pc = "fn_framed"
    /\ \/ response' = message_with_crc
       \/ \E i \in 1..Len(message), k \in 0..7 :
              response' = FlipBit(message_with_crc, i, k)
       \/ response' = message
    /\ pc' = "fn_deliver"
    /\ UNCHANGED <<port, input_data, input_values, address, function_code,
                   starting_register, length, message, crc, message_with_crc,
                   crc_ok, data, error, printed, wire, reads>>

\* self.verify_crc(response)
FnVerify ==
    /\ pc = "fn_deliver"
    /\ crc_ok' = verify_crc(response)
    /\ pc' = "fn_verified"
    /\ UNCHANGED <<port, input_data, input_values, address, function_code,
                   starting_register, length, message, crc, message_with_crc,
                   response, data, error, printed, wire, reads>>

NextFn ==
    \/ FnComputeCrc
    \/ FnAttach
    \/ FnDeliver
    \/ FnVerify

SpecFn == InitFn /\ [][NextFn]_vars

(***************************************************************************)
(* Properties.                                                             *)
(***************************************************************************)
\* process_input has returned
Returned == pc = "done"

\* verify_crc has returned in process_input
Verified == pc \in {"finally", "done"} /\ error = "none"

\* the transaction state of section 4.4 that a position of the program is in
TxState ==
    IF error # "none" THEN "Failed"
    ELSE CASE pc \in {"main", "input", "parse", "extract", "validate"} -> "Idle"
           [] pc = "build" -> "ParamsValidated"
           [] pc = "write" -> "FrameBuilt"
           [] pc = "read" -> "Sent"
           [] pc = "verify" -> "ResponseReceived"
           [] OTHER -> IF crc_ok THEN "Validated" ELSE "CRCFailed"

TxEdges ==
    { <<"Idle", "ParamsValidated">>, <<"ParamsValidated", "FrameBuilt">>,
      <<"FrameBuilt", "Sent">>, <<"Sent", "ResponseReceived">>,
      <<"ResponseReceived", "Validated">>, <<"ResponseReceived", "CRCFailed">>,
      <<"Idle", "Failed">>, <<"FrameBuilt", "Failed">>, <<"Sent", "Failed">> }

\* C1: no frame is built unless slave_address is in 0-255, function_code in
\* 0-255, starting_register in 0-65535 and register_count in 1-125; a request
\* outside these ranges is rejected before build_modbus_message runs.
C1_RangeEnforced ==
    message # <<>> =>
        /\ address \in 0..255
        /\ function_code \in 0..255
        /\ starting_register \in 0..65535
        /\ length \in 1..125

\* C2: for every parameter set with slave_address in 0-255, function_code in
\* 0-255, starting_register in 0-65535 and register_count in 1-125, the 8-byte
\* frame made of the request and its CRC (2 bytes, little-endian) passes
\* verify_crc when it comes back as the response.
C2_RoundTrip ==
    (/\ Verified
     /\ address \in 0..255 /\ function_code \in 0..255
     /\ starting_register \in 0..65535 /\ length \in 1..125
     /\ response = message_with_crc)
        => (Len(response) = 8 /\ crc_ok = TRUE)

C2_Witness ==
    /\ Verified
    /\ length = 125 /\ starting_register = 257 /\ address = 255
    /\ response = message_with_crc
    /\ crc_ok

\* C3: when process_input has returned, whatever the outcome (validated, CRC
\* failed, or failed on a parse, parameter or transport error), the serial port
\* is closed.
C3_ClosedOnExit ==
    /\ Returned => port = "closed"
    /\ (TxState \in {"Validated", "CRCFailed", "Failed"} /\ pc = "done")
           => port = "closed"

C3_Witness ==
    /\ Returned
    /\ error = "SerialException"
    /\ wire = <<>>
    /\ port = "closed"

\* C4: each of the errors a run can meet (malformed or too few tokens, a
\* parameter out of range, a transport failure on open or on write) is caught
\* by process_input's handler and reported; none ends the process uncaught.
C4_AllErrorsCaught ==
    error \in {"ValueError", "IndexError", "SerialException"} =>
        /\ pc \in {"except", "finally", "done"}
        /\ (pc \in {"finally", "done"} => printed # <<>> /\ printed[Len(printed)] = "error")

\* C5: every frame written to the transport is 8 bytes,
\* [addr][func][start_hi][start_lo][count_hi][count_lo][crc_lo][crc_hi], the CRC
\* being compute_crc of the first 6 bytes; the parameters 1, 3, 0x0001, 0x0002
\* give the body 01 03 00 01 00 02.
C5_WireLayout ==
    \A n \in 1..Len(wire) :
        LET f == wire[n]
        IN  /\ Len(f) = 8
            /\ f[1] = address
            /\ f[2] = function_code
            /\ (256 * f[3]) + f[4] = starting_register
            /\ (256 * f[5]) + f[6] = length
            /\ f[3] \in 0..255 /\ f[4] \in 0..255
            /\ f[5] \in 0..255 /\ f[6] \in 0..255
            /\ f[7] \in 0..255 /\ f[8] \in 0..255
            /\ f[7] + (256 * f[8]) = compute_crc(SubSeq(f, 1, 6))
            /\ (address = 1 /\ function_code = 3 /\ starting_register = 1
                    /\ length = 2 => SubSeq(f, 1, 6) = <<1, 3, 0, 1, 0, 2>>)

C5_Witness ==
    /\ wire # <<>>
    /\ address = 1 /\ function_code = 3 /\ starting_register = 1 /\ length = 2
    /\ SubSeq(wire[1], 1, 6) = <<1, 3, 0, 1, 0, 2>>

\* CRC-16/Modbus stated on the message as a stream of bits, least significant
\* bit of each byte first: the register is shifted right once per bit, and
\* 0xA001 is XORed in when the bit shifted out differs from the message bit.
RefCrcBit[reg \in Nat, bit \in {0, 1}] ==
    IF ((reg % 2) + bit) % 2 = 1 THEN NatXor(reg \div 2, 40961) ELSE reg \div 2

RECURSIVE RefCrcBits(_, _, _)
RefCrcBits(reg, byte, k) ==
    IF k = 8 THEN reg
    ELSE RefCrcBits(RefCrcBit[reg, (byte \div (2 ^ k)) % 2], byte, k + 1)

RefCrcByte[reg \in Nat, byte \in Nat] == RefCrcBits(reg, byte, 0)

RECURSIVE RefCrc(_, _)
RefCrc(bytes, n) ==
    IF n = 0 THEN 65535 ELSE RefCrcByte[RefCrc(bytes, n - 1), bytes[n]]

\* C6: compute_crc returns, for every byte sequence, a value in 0..65535 equal
\* to the reference CRC-16/Modbus; 0xFFFF for the empty sequence and 0x0BC4 for
\* 01 03 00 00 00 02; and computing it changes nothing else.
C6_CrcReference ==
    pc \in {"fn_crc", "fn_framed", "fn_deliver", "fn_verified"} =>
        /\ crc \in 0..65535
        /\ crc = RefCrc(message, Len(message))
        /\ (message = <<>> => crc = 65535)
        /\ (message = KnownVector => crc = 3012)

C6_Witness ==
    /\ pc = "fn_crc"
    /\ message = KnownVector
    /\ crc = 3012

\* C7: verify_crc returns false for every response of 0, 1 or 2 bytes, and for
\* a longer one returns true exactly when compute_crc of all bytes but the last
\* two equals the last two bytes read as a little-endian 16-bit integer.
C7_VerifyCrc ==
    pc = "fn_verified" =>
        LET n == Len(response)
        IN  /\ crc_ok \in BOOLEAN
            /\ (n <= 2 => crc_ok = FALSE)
            /\ (n > 2 => (crc_ok <=> compute_crc(SubSeq(response, 1, n - 2))
                                        = response[n - 1] + (256 * response[n])))

C7_Witness ==
    /\ pc = "fn_verified"
    /\ response = <<255, 255>>
    /\ crc_ok = FALSE

\* C8: when one bit of the body of a frame that verify_crc accepts is flipped,
\* verify_crc rejects the result.
C8_TamperDetected ==
    (/\ pc = "fn_verified"
     /\ verify_crc(message_with_crc)
     /\ \E i \in 1..(Len(message_with_crc) - 2), k \in 0..7 :
            response = FlipBit(message_with_crc, i, k))
        => crc_ok = FALSE

C8_Witness ==
    /\ pc = "fn_verified"
    /\ message = KnownVector
    /\ verify_crc(message_with_crc)
    /\ response = FlipBit(message_with_crc, 1, 7)
    /\ crc_ok = FALSE

\* C9: every step of a run moves along Idle -> ParamsValidated -> FrameBuilt ->
\* Sent -> ResponseReceived -> {Validated, CRCFailed}, or to Failed; there is at
\* most one write and one read, the read after the write, the write after the
\* parameters passed validation, and nothing is written when parsing or
\* validation fails.
C9_Order ==
    [][ /\ (TxState' # TxState => <<TxState, TxState'>> \in TxEdges)
        /\ Len(wire') <= 1 /\ reads' <= 1
        /\ (reads' # reads => Len(wire) = 1)
        /\ (wire' # wire =>
               /\ TxState = "FrameBuilt"
               /\ params_ok(address, function_code, starting_register, length)
               /\ printed = <<"sent">>)
        /\ (error' \in {"ValueError", "IndexError"} => wire' = <<>> /\ reads' = 0)
      ]_vars

C9_Witness ==
    /\ Returned
    /\ TxState = "CRCFailed"
    /\ Len(wire) = 1
    /\ reads = 1

\* C10: the register payload is extracted only when verify_crc returned true,
\* and is then response[3 .. length-2]; on a CRC failure or a short response
\* nothing is extracted.  The response 01 03 02 00 0A followed by its CRC
\* verifies and yields the payload 00 0A.
C10_Extraction ==
    /\ data # None =>
          /\ Verified /\ crc_ok = TRUE
          /\ Len(response) > 2
          /\ data = Some([i \in 1..(IF Len(response) > 5 THEN Len(response) - 5 ELSE 0)
                             |-> response[i + 3]])
    /\ (Verified /\ ~crc_ok) => data = None
    /\ (Verified /\ crc_ok) => data # None
    /\ (Verified /\ response = <<1, 3, 2, 0, 10, 56, 67>>) =>
          crc_ok = TRUE /\ data = Some(<<0, 10>>)

C10_Witness ==
    /\ Returned
    /\ response = <<1, 3, 2, 0, 10, 56, 67>>
    /\ data = Some(<<0, 10>>)

====
